---- MODULE Spec2Model ----
(***************************************************************************)
(* Model of the BambooSwap settlement engine (src/src/lib.rs): the forward *)
(* swap panda_to_bamboo, the reverse swap bamboo_to_panda, the LIFO        *)
(* registry of held panda ids, the total-supply ledger and the per-txid    *)
(* replay guard.                                                           *)
(*                                                                         *)
(* Storage is the key-value namespace the handlers write through           *)
(* StoragePointer.  A handler is a function from (storage, txid, parcel)   *)
(* to a result carrying the storage as the handler left it; the host       *)
(* keeps those writes only when the handler returned Ok.                   *)
(*                                                                         *)
(* TLC's integers are 32-bit, so the u128 range and the exchange rate are  *)
(* scaled down: BAMBOO_PER_PANDA stands for 10^13 and U128_MAX for         *)
(* 2^128 - 1.  U128_MAX is chosen so that exactly MaxPandas units of       *)
(* credit fit, which makes the checked-add overflow of the ledger          *)
(* reachable.  PANDA_SUPPLY stands for 10_000 and is scaled below          *)
(* MaxPandas, so that a total_supply above BAMBOO_CAP fits in the range.   *)
(***************************************************************************)
EXTENDS Integers, Sequences, FiniteSets, TLC

VARIABLES storage, pre, last, settled, rt, custody

vars == <<storage, pre, last, settled, rt, custody>>

-----------------------------------------------------------------------------
(* Bounds *)

BAMBOO_PER_PANDA == 4

MaxPandas == 3

MaxParcel == 3

PANDA_SUPPLY == 2

BAMBOO_CAP == PANDA_SUPPLY * BAMBOO_PER_PANDA

U128_MAX == MaxPandas * BAMBOO_PER_PANDA + (BAMBOO_PER_PANDA - 1)

SlotCap == MaxPandas + MaxParcel

TxIds == {1, 2, 3}

-----------------------------------------------------------------------------
(* Identifiers and parcels *)

PANDA_BLOCK == 2

PANDA_IDS == {1, 2, 3}

AlkaneId(block, tx) == [block |-> block, tx |-> tx]

Myself == AlkaneId(2, 9)

PandaA == AlkaneId(2, 1)

PandaB == AlkaneId(2, 2)

PandaC == AlkaneId(2, 3)

WrongBlock == AlkaneId(4, 1)

AlkaneTransfer(id, value) == [id |-> id, value |-> value]

Credit(v) == AlkaneTransfer(Myself, v)

Panda(id) == AlkaneTransfer(id, 1)

CollectibleTransfers == {Panda(i) : i \in {PandaA, PandaB, WrongBlock}}

Amounts ==
  {BAMBOO_PER_PANDA - 1, BAMBOO_PER_PANDA, BAMBOO_PER_PANDA + BAMBOO_PER_PANDA \div 2,
   2 * BAMBOO_PER_PANDA, 3 * BAMBOO_PER_PANDA}

CreditTransfers == {Credit(v) : v \in Amounts}

SeqsUpTo(S, n) == UNION {[1..k -> S] : k \in 0..n}

(* parcels whose collectible transfers carry an amount other than 1 *)
OddAmountParcels ==
  {<<AlkaneTransfer(PandaA, 0)>>,
   <<AlkaneTransfer(PandaA, 2)>>,
   <<AlkaneTransfer(PandaA, 0), AlkaneTransfer(PandaA, 2)>>}

(* the parcels attached to a call that does not read them *)
ViewParcels == {<<>>, <<Credit(BAMBOO_PER_PANDA)>>}

(* every parcel of up to MaxParcel collectibles over two members and a     *)
(* non-member, the parcel of three distinct members, every parcel of one   *)
(* credit transfer, and three parcels that mix or repeat credit transfers  *)
Parcels ==
  SeqsUpTo(CollectibleTransfers, MaxParcel)
    \cup {<<Panda(PandaA), Panda(PandaB), Panda(PandaC)>>}
    \cup OddAmountParcels
    \cup SeqsUpTo(CreditTransfers, 1)
    \cup {<<Credit(BAMBOO_PER_PANDA), Credit(BAMBOO_PER_PANDA)>>,
          <<Panda(PandaA), Credit(BAMBOO_PER_PANDA)>>,
          <<Credit(BAMBOO_PER_PANDA), Panda(PandaA)>>}

-----------------------------------------------------------------------------
(* Error messages, named after the spec's taxonomy *)

ReplayDetected == "Transaction already used for swap"

EmptyInput == "Must send at least 1 Panda to swap"

InvalidAssetId == "Invalid Panda ID"

WrongInputShape == "Must send $BAMBOO to swap"

WrongAssetSupplied == "Supplied alkane is not $BAMBOO"

InsufficientAmount == "Not enough $BAMBOO supplied to swap"

InsufficientInventory == "Not enough Pandas available to swap"

BambooAmountOverflow == "Bamboo amount overflow"

CountOverflow == "instances count overflow"

CountUnderflow == "instances count underflow"

CorruptState == "Invalid instance data length"

OverflowError == "overflow error"

NotImplemented == "Minting not implemented"

-----------------------------------------------------------------------------
(* Checked u128 arithmetic and the fixed-width little-endian encoding *)

None == -1

checked_add(a, b) == IF a + b > U128_MAX THEN None ELSE a + b

checked_sub(a, b) == IF a < b THEN None ELSE a - b

RECURSIVE LeBytes(_, _)
LeBytes(n, k) == IF k = 0 THEN <<>> ELSE <<n % 256>> \o LeBytes(n \div 256, k - 1)

to_le_bytes(n) == LeBytes(n, 16)

RECURSIVE from_le_bytes(_)
from_le_bytes(b) == IF b = <<>> THEN 0 ELSE Head(b) + 256 * from_le_bytes(Tail(b))

-----------------------------------------------------------------------------
(* Results of fallible steps: val is the Ok value, st the storage as the   *)
(* step left it.                                                           *)

StepOk(st, val) == [ok |-> TRUE, err |-> "", st |-> st, val |-> val]

StepErr(st, msg) == [ok |-> FALSE, err |-> msg, st |-> st, val |-> None]

(* Results of a handler: alkanes is response.alkanes, data response.data *)

OkData(st, alkanes, data) ==
  [ok |-> TRUE, err |-> "", st |-> st, alkanes |-> alkanes, data |-> data]

Ok(st, alkanes) == OkData(st, alkanes, <<>>)

Err(st, msg) == [ok |-> FALSE, err |-> msg, st |-> st, alkanes |-> <<>>, data |-> <<>>]

-----------------------------------------------------------------------------
(* Storage: /total_supply, /instances (the count), /instances/<index>      *)
(* (the slots, <<>> when unset or cleared) and /tx-hashes/<txid>.          *)

EmptyStorage ==
  [total_supply |-> 0,
   instances |-> 0,
   slot |-> [i \in 1..SlotCap |-> <<>>],
   tx_hashes |-> [t \in TxIds |-> 0]]

total_supply(st) == st.total_supply

set_total_supply(st, v) == [st EXCEPT !.total_supply = v]

increase_total_supply_capped(st, v) ==
  LET sum == checked_add(total_supply(st), v)
  IN  IF sum = None \/ sum > BAMBOO_CAP THEN StepErr(st, OverflowError)
      ELSE StepOk(set_total_supply(st, sum), None)

increase_total_supply(st, v) ==
  LET sum == checked_add(total_supply(st), v)
  IN  IF sum = None THEN StepErr(st, OverflowError)
      ELSE StepOk(set_total_supply(st, sum), None)

decrease_total_supply_saturating(st, v) ==
  LET diff == checked_sub(total_supply(st), v)
  IN  IF diff = None THEN StepOk(set_total_supply(st, 0), None)
      ELSE StepOk(set_total_supply(st, diff), None)

decrease_total_supply_no_write(st, v) ==
  LET diff == checked_sub(total_supply(st), v)
  IN  IF diff = None THEN StepErr(st, OverflowError)
      ELSE StepOk(st, None)

decrease_total_supply(st, v) ==
  LET diff == checked_sub(total_supply(st), v)
  IN  IF diff = None THEN StepErr(st, OverflowError)
      ELSE StepOk(set_total_supply(st, diff), None)

is_valid_panda_any_block(id) == id.tx \in PANDA_IDS

is_valid_panda(id) == id.block = PANDA_BLOCK /\ id.tx \in PANDA_IDS

instances_count(st) == st.instances

set_instances_count(st, count) == [st EXCEPT !.instances = count]

GetSlot(st, index) == IF index \in DOMAIN st.slot THEN st.slot[index] ELSE <<>>

SetSlot(st, index, bytes) == [st EXCEPT !.slot[index] = bytes]

add_instance_at_count(st, instance_id) ==
  LET count == instances_count(st)
      new_count == checked_add(count, 1)
      bytes == to_le_bytes(instance_id.block) \o to_le_bytes(instance_id.tx)
  IN  IF new_count = None THEN StepErr(st, CountOverflow)
      ELSE StepOk(set_instances_count(SetSlot(st, count, bytes), new_count), new_count)

add_instance(st, instance_id) ==
  LET count == instances_count(st)
      new_count == checked_add(count, 1)
      bytes == to_le_bytes(instance_id.block) \o to_le_bytes(instance_id.tx)
  IN  IF new_count = None THEN StepErr(st, CountOverflow)
      ELSE StepOk(set_instances_count(SetSlot(st, new_count, bytes), new_count), new_count)

lookup_instance_same_slot(st, index) ==
  LET bytes == GetSlot(st, index)
  IN  IF Len(bytes) # 32 THEN StepErr(st, CorruptState)
      ELSE StepOk(st, AlkaneId(from_le_bytes(SubSeq(bytes, 1, 16)),
                               from_le_bytes(SubSeq(bytes, 17, 32))))

lookup_instance(st, index) ==
  LET bytes == GetSlot(st, index + 1)
  IN  IF Len(bytes) # 32 THEN StepErr(st, CorruptState)
      ELSE StepOk(st, AlkaneId(from_le_bytes(SubSeq(bytes, 1, 16)),
                               from_le_bytes(SubSeq(bytes, 17, 32))))

pop_instance_oldest(st) ==
  LET count == instances_count(st)
      new_count == checked_sub(count, 1)
  IN  IF new_count = None THEN StepErr(st, CountUnderflow)
      ELSE LET found == lookup_instance(st, 0)
           IN  IF ~found.ok THEN StepErr(st, found.err)
               ELSE StepOk(set_instances_count(SetSlot(st, count, <<>>), new_count), found.val)

pop_instance_keep_slot(st) ==
  LET count == instances_count(st)
      new_count == checked_sub(count, 1)
  IN  IF new_count = None THEN StepErr(st, CountUnderflow)
      ELSE LET found == lookup_instance(st, count - 1)
           IN  IF ~found.ok THEN StepErr(st, found.err)
               ELSE StepOk(set_instances_count(st, new_count), found.val)

pop_instance_next_slot(st) ==
  LET count == instances_count(st)
      new_count == checked_sub(count, 1)
  IN  IF new_count = None THEN StepErr(st, CountUnderflow)
      ELSE LET found == lookup_instance(st, count)
           IN  IF ~found.ok THEN StepErr(st, found.err)
               ELSE StepOk(set_instances_count(SetSlot(st, count, <<>>), new_count), found.val)

pop_instance(st) ==
  LET count == instances_count(st)
      new_count == checked_sub(count, 1)
  IN  IF new_count = None THEN StepErr(st, CountUnderflow)
      ELSE LET found == lookup_instance(st, count - 1)
           IN  IF ~found.ok THEN StepErr(st, found.err)
               ELSE StepOk(set_instances_count(SetSlot(st, count, <<>>), new_count), found.val)

has_tx_hash(st, txid) == st.tx_hashes[txid] = 1

add_tx_hash_zero(st, txid) == [st EXCEPT !.tx_hashes[txid] = 0]

add_tx_hash(st, txid) == [st EXCEPT !.tx_hashes[txid] = 1]

-----------------------------------------------------------------------------
(* panda_to_bamboo *)

RECURSIVE PandaLoopPerAmount(_, _, _, _)
RECURSIVE PandaLoop(_, _, _, _)
RECURSIVE PandaLoopSkipInvalid(_, _, _, _)
PandaLoopSkipInvalid(st, parcel, i, total_bamboo) ==
  IF i > Len(parcel) THEN StepOk(st, total_bamboo)
  ELSE IF ~is_valid_panda(parcel[i].id) THEN PandaLoopSkipInvalid(st, parcel, i + 1, total_bamboo)
  ELSE LET added == add_instance(st, parcel[i].id)
           total == checked_add(total_bamboo, BAMBOO_PER_PANDA)
       IN  IF ~added.ok THEN StepErr(st, added.err)
           ELSE IF total = None THEN StepErr(added.st, BambooAmountOverflow)
           ELSE PandaLoopSkipInvalid(added.st, parcel, i + 1, total)

PandaLoopPerAmount(st, parcel, i, total_bamboo) ==
  IF i > Len(parcel) THEN StepOk(st, total_bamboo)
  ELSE IF ~is_valid_panda(parcel[i].id) THEN StepErr(st, InvalidAssetId)
  ELSE LET added == add_instance(st, parcel[i].id)
           total == checked_add(total_bamboo, parcel[i].value * BAMBOO_PER_PANDA)
       IN  IF ~added.ok THEN StepErr(st, added.err)
           ELSE IF total = None THEN StepErr(added.st, BambooAmountOverflow)
           ELSE PandaLoopPerAmount(added.st, parcel, i + 1, total)

PandaLoop(st, parcel, i, total_bamboo) ==
  IF i > Len(parcel) THEN StepOk(st, total_bamboo)
  ELSE IF ~is_valid_panda(parcel[i].id) THEN StepErr(st, InvalidAssetId)
  ELSE LET added == add_instance(st, parcel[i].id)
           total == checked_add(total_bamboo, BAMBOO_PER_PANDA)
       IN  IF ~added.ok THEN StepErr(st, added.err)
           ELSE IF total = None THEN StepErr(added.st, BambooAmountOverflow)
           ELSE PandaLoop(added.st, parcel, i + 1, total)

(* lines 216-239: mark, loop, increase, respond *)
PandaSettle(st, txid, parcel) ==
  LET loop == PandaLoop(add_tx_hash(st, txid), parcel, 1, 0)
  IN  IF ~loop.ok THEN Err(loop.st, loop.err)
      ELSE LET inc == increase_total_supply(loop.st, loop.val)
           IN  IF ~inc.ok THEN Err(inc.st, inc.err)
               ELSE Ok(inc.st, <<AlkaneTransfer(Myself, loop.val)>>)

panda_to_bamboo_shape_first(st, txid, parcel) ==
  IF parcel = <<>> THEN Err(st, EmptyInput)
  ELSE IF has_tx_hash(st, txid) THEN Err(st, ReplayDetected)
  ELSE PandaSettle(st, txid, parcel)

panda_to_bamboo(st, txid, parcel) ==
  IF has_tx_hash(st, txid) THEN Err(st, ReplayDetected)
  ELSE IF parcel = <<>> THEN Err(st, EmptyInput)
  ELSE PandaSettle(st, txid, parcel)

-----------------------------------------------------------------------------
(* bamboo_to_panda *)

panda_count(value) == value \div BAMBOO_PER_PANDA

bamboo_used_whole(value) == value

bamboo_used(value) == panda_count(value) * BAMBOO_PER_PANDA

bamboo_change_minus_rate(value) == value - BAMBOO_PER_PANDA

bamboo_change(value) == value % BAMBOO_PER_PANDA

RECURSIVE PopLoop(_, _, _)
PopLoop(st, n, alkanes) ==
  IF n = 0 THEN StepOk(st, alkanes)
  ELSE LET popped == pop_instance(st)
       IN  IF ~popped.ok THEN StepErr(st, popped.err)
           ELSE PopLoop(popped.st, n - 1, Append(alkanes, AlkaneTransfer(popped.val, 1)))

ChangeTransfer(value) ==
  IF bamboo_change(value) > 0 THEN <<AlkaneTransfer(Myself, bamboo_change(value))>> ELSE <<>>

(* lines 251-273: the checks between the replay check and the mark; "" when all pass *)
BambooChecksAmountFirst(st, parcel) ==
  IF Len(parcel) # 1 THEN WrongInputShape
  ELSE IF parcel[1].value < BAMBOO_PER_PANDA THEN InsufficientAmount
  ELSE IF parcel[1].id # Myself THEN WrongAssetSupplied
  ELSE IF instances_count(st) < panda_count(parcel[1].value) THEN InsufficientInventory
  ELSE ""

BambooChecks(st, parcel) ==
  IF Len(parcel) # 1 THEN WrongInputShape
  ELSE IF parcel[1].id # Myself THEN WrongAssetSupplied
  ELSE IF parcel[1].value < BAMBOO_PER_PANDA THEN InsufficientAmount
  ELSE IF instances_count(st) < panda_count(parcel[1].value) THEN InsufficientInventory
  ELSE ""

(* lines 275-297: mark, decrease, pop, change, respond *)
BambooSettle(st, txid, value) ==
  LET dec == decrease_total_supply(add_tx_hash(st, txid), bamboo_used(value))
  IN  IF ~dec.ok THEN Err(dec.st, dec.err)
      ELSE LET pops == PopLoop(dec.st, panda_count(value), <<>>)
           IN  IF ~pops.ok THEN Err(pops.st, pops.err)
               ELSE Ok(pops.st, pops.val \o ChangeTransfer(value))

bamboo_to_panda(st, txid, parcel) ==
  IF has_tx_hash(st, txid) THEN Err(st, ReplayDetected)
  ELSE IF BambooChecks(st, parcel) # "" THEN Err(st, BambooChecks(st, parcel))
  ELSE BambooSettle(st, txid, parcel[1].value)

-----------------------------------------------------------------------------
(* mint_tokens and the listing views *)

mint_tokens_issues(st) ==
  LET inc == increase_total_supply(st, BAMBOO_PER_PANDA)
  IN  IF ~inc.ok THEN Err(st, inc.err) ELSE Ok(inc.st, <<Credit(BAMBOO_PER_PANDA)>>)

mint_tokens(st) == Err(st, NotImplemented)

get_panda_stack_count(st, parcel) == OkData(st, parcel, to_le_bytes(instances_count(st)))

RECURSIVE StackLoopNewestFirst(_, _, _, _)
StackLoopNewestFirst(st, i, count, flattened) ==
  IF i >= count THEN StepOk(st, flattened)
  ELSE LET found == lookup_instance(st, i)
       IN  IF ~found.ok THEN StepErr(st, found.err)
           ELSE StackLoopNewestFirst(st, i + 1, count,
                  to_le_bytes(found.val.block) \o to_le_bytes(found.val.tx) \o flattened)

RECURSIVE StackLoop(_, _, _, _)
StackLoop(st, i, count, flattened) ==
  IF i >= count THEN StepOk(st, flattened)
  ELSE LET found == lookup_instance(st, i)
       IN  IF ~found.ok THEN StepErr(st, found.err)
           ELSE StackLoop(st, i + 1, count,
                          flattened \o to_le_bytes(found.val.block) \o to_le_bytes(found.val.tx))

get_panda_stack(st, parcel) ==
  LET loop == StackLoop(st, 0, instances_count(st), <<>>)
  IN  IF ~loop.ok THEN Err(st, loop.err) ELSE OkData(st, parcel, loop.val)

-----------------------------------------------------------------------------
(* The host: one invocation runs to completion before the next begins; its *)
(* writes are kept only when the handler returned Ok.  last holds the call *)
(* whose response is being handed back to the caller (op = "none" between  *)
(* invocations), pre the storage that call started from, settled the txids *)
(* of the swaps that returned Ok before it, custody the identifiers those  *)
(* swaps deposited and have not returned, oldest first.  rt follows a      *)
(* deposit of one id and the redemption of one unit right after it.        *)

CommitAlways(st, r) == r.st

Commit(st, r) == IF r.ok THEN r.st ELSE st

NoTx == 0

NoCall ==
  [op |-> "none", txid |-> NoTx, parcel |-> <<>>, ok |-> TRUE, err |-> "",
   alkanes |-> <<>>, data |-> <<>>, cache |-> EmptyStorage]

RtIdle == [phase |-> "idle", x |-> Myself, tx |-> 0, st |-> EmptyStorage]

RtNext(op, txid, parcel, r) ==
  IF op = "panda_to_bamboo" /\ r.ok /\ Len(parcel) = 1
  THEN [phase |-> "deposited", x |-> parcel[1].id, tx |-> txid, st |-> storage]
  ELSE IF rt.phase = "deposited" /\ op = "bamboo_to_panda" /\ txid # rt.tx
          /\ parcel = <<AlkaneTransfer(Myself, BAMBOO_PER_PANDA)>>
  THEN [rt EXCEPT !.phase = "redeemed"]
  ELSE RtIdle

Invoke(op, txid, parcel, r) ==
  /\ last.op = "none"
  /\ pre' = storage
  /\ storage' = Commit(storage, r)
  /\ last' = [op |-> op, txid |-> txid, parcel |-> parcel, ok |-> r.ok, err |-> r.err,
              alkanes |-> r.alkanes, data |-> r.data, cache |-> r.st]
  /\ settled' = settled
  /\ custody' = custody
  /\ rt' = RtNext(op, txid, parcel, r)

Init ==
  /\ storage = EmptyStorage
  /\ pre = EmptyStorage
  /\ last = NoCall
  /\ settled = {}
  /\ rt = RtIdle
  /\ custody = <<>>

PandaToBamboo ==
  \E txid \in TxIds, parcel \in Parcels :
    Invoke("panda_to_bamboo", txid, parcel, panda_to_bamboo(storage, txid, parcel))

BambooToPanda ==
  \E txid \in TxIds, parcel \in Parcels :
    Invoke("bamboo_to_panda", txid, parcel, bamboo_to_panda(storage, txid, parcel))

MintTokens ==
  \E parcel \in ViewParcels : Invoke("mint_tokens", NoTx, parcel, mint_tokens(storage))

GetPandaStackCount ==
  \E parcel \in ViewParcels :
    Invoke("get_panda_stack_count", NoTx, parcel, get_panda_stack_count(storage, parcel))

GetPandaStack ==
  \E parcel \in ViewParcels :
    Invoke("get_panda_stack", NoTx, parcel, get_panda_stack(storage, parcel))

IsSwap(call) == call.op \in {"panda_to_bamboo", "bamboo_to_panda"}

Returned(alkanes) == Cardinality({i \in 1..Len(alkanes) : alkanes[i].id # Myself})

CustodyNext ==
  IF last.ok /\ last.op = "panda_to_bamboo"
  THEN custody \o [i \in 1..Len(last.parcel) |-> last.parcel[i].id]
  ELSE IF last.ok /\ last.op = "bamboo_to_panda"
  THEN SubSeq(custody, 1, Len(custody) - Returned(last.alkanes))
  ELSE custody

Respond ==
  /\ last.op # "none"
  /\ last' = NoCall
  /\ pre' = storage
  /\ rt' = IF rt.phase = "deposited" THEN rt ELSE RtIdle
  /\ settled' = IF last.ok /\ IsSwap(last) THEN settled \cup {last.txid} ELSE settled
  /\ custody' = CustodyNext
  /\ UNCHANGED storage

Next ==
  \/ PandaToBamboo
  \/ BambooToPanda
  \/ MintTokens
  \/ GetPandaStackCount
  \/ GetPandaStack
  \/ Respond

Spec == Init /\ [][Next]_vars

-----------------------------------------------------------------------------
(* The ledger and the registry on their own: increase_total_supply,        *)
(* decrease_total_supply and pop_instance applied directly, with any       *)
(* amount, starting from an empty or a full ledger and a registry of up to *)
(* two identifiers.  The storage keeps what the function wrote.            *)

RECURSIVE AddAll(_, _)
AddAll(st, ids) == IF ids = <<>> THEN st ELSE AddAll(add_instance(st, Head(ids)).st, Tail(ids))

UnitRegistries == {<<>>, <<PandaA>>, <<PandaA, PandaB>>}

UnitStorages ==
  {set_total_supply(AddAll(EmptyStorage, q), v) : q \in UnitRegistries, v \in {0, U128_MAX}}

InitUnit ==
  /\ storage \in UnitStorages
  /\ pre = storage
  /\ last = NoCall
  /\ settled = {}
  /\ rt = RtIdle
  /\ custody = <<>>

UnitApply(op, arg, r) ==
  /\ last.op = "none"
  /\ pre' = storage
  /\ storage' = r.st
  /\ last' = [op |-> op, txid |-> NoTx, parcel |-> <<>>, ok |-> r.ok, err |-> r.err,
              alkanes |-> <<>>, data |-> <<>>, cache |-> r.st, arg |-> arg, val |-> r.val]
  /\ UNCHANGED <<settled, rt, custody>>

UnitIncrease ==
  \E v \in 0..U128_MAX :
    UnitApply("increase_total_supply", v, increase_total_supply(storage, v))

UnitDecrease ==
  \E v \in 0..U128_MAX :
    UnitApply("decrease_total_supply", v, decrease_total_supply(storage, v))

UnitPop == UnitApply("pop_instance", 0, pop_instance(storage))

UnitReturn ==
  /\ last.op # "none"
  /\ last' = NoCall
  /\ pre' = storage
  /\ UNCHANGED <<storage, settled, rt, custody>>

NextUnit == UnitIncrease \/ UnitDecrease \/ UnitPop \/ UnitReturn

SpecUnit == InitUnit /\ [][NextUnit]_vars

-----------------------------------------------------------------------------
(* Vocabulary of the properties *)

Forward == last.op = "panda_to_bamboo"

Reverse == last.op = "bamboo_to_panda"

Fresh == ~has_tx_hash(pre, last.txid)

Rate == BAMBOO_PER_PANDA

(* the registry as the sequence of the identifiers held in slots 1..count *)
NoId == AlkaneId(None, None)

SlotId(st, j) == IF lookup_instance(st, j - 1).ok THEN lookup_instance(st, j - 1).val ELSE NoId

Held(st) == [j \in 1..instances_count(st) |-> SlotId(st, j)]

Ids(parcel) == [i \in 1..Len(parcel) |-> parcel[i].id]

AllMembers(parcel) == \A i \in 1..Len(parcel) : is_valid_panda(parcel[i].id)

SameRegistry(s, t) == s.instances = t.instances /\ s.slot = t.slot

-----------------------------------------------------------------------------
(* C1 *)

C1_Case == Forward /\ Len(last.parcel) >= 1 /\ AllMembers(last.parcel) /\ Fresh

C1_Effect ==
  LET k == Len(last.parcel)
  IN  /\ last.ok
      /\ last.alkanes = <<AlkaneTransfer(Myself, k * Rate)>>
      /\ total_supply(storage) = total_supply(pre) + k * Rate
      /\ instances_count(storage) = instances_count(pre) + k
      /\ Held(storage) = Held(pre) \o Ids(last.parcel)
      /\ \A j \in 1..instances_count(pre) : storage.slot[j] = pre.slot[j]

(* C1 as stated: every forward swap of k >= 1 member identifiers under an  *)
(* unmarked txid succeeds, emits one credit transfer of k * rate, raises   *)
(* total_supply by k * rate and appends the identifiers in parcel order at *)
(* slots count+1..count+k, leaving slots 1..count as they were.            *)
C1_ForwardAlwaysSucceeds == C1_Case => C1_Effect

(* C1 amended: the same, provided total_supply + k * rate fits in the      *)
(* unsigned 128-bit range.                                                 *)
C1_ForwardSucceedsWhenSupplyFits ==
  (C1_Case /\ total_supply(pre) + Len(last.parcel) * Rate <= U128_MAX) => C1_Effect

C1_Witness ==
  /\ C1_Case /\ last.ok
  /\ Len(last.parcel) >= 2
  /\ instances_count(pre) >= 1
  /\ last.parcel[1].id # last.parcel[2].id

-----------------------------------------------------------------------------
(* C2 *)

(* C2: a successful reverse swap of u = amount div rate units emits, as    *)
(* its first u transfers, the identifiers of slots n, n-1, .., n-u+1 with  *)
(* amount 1 each (anything after them is the credit change), and leaves    *)
(* the registry equal to slots 1..n-u with count n-u.                      *)
C2_ReverseIsLifo ==
  (Reverse /\ last.ok) =>
    LET u == last.parcel[1].value \div Rate
        n == instances_count(pre)
    IN  /\ u <= n
        /\ Len(last.alkanes) >= u
        /\ SubSeq(last.alkanes, 1, u)
             = [i \in 1..u |-> AlkaneTransfer(Held(pre)[n + 1 - i], 1)]
        /\ \A i \in (u + 1)..Len(last.alkanes) : last.alkanes[i].id = Myself
        /\ instances_count(storage) = n - u
        /\ Held(storage) = SubSeq(Held(pre), 1, n - u)
        /\ \A j \in DOMAIN storage.slot :
             storage.slot[j] = IF j <= n - u THEN pre.slot[j] ELSE <<>>

C2_Witness ==
  /\ Reverse /\ last.ok
  /\ Held(pre) = <<PandaA, PandaB, PandaC>>
  /\ last.parcel[1].value = 2 * Rate
  /\ last.alkanes = <<AlkaneTransfer(PandaC, 1), AlkaneTransfer(PandaB, 1)>>
  /\ Held(storage) = <<PandaA>>

-----------------------------------------------------------------------------
(* C3 *)

(* C3: a call of either swap whose txid belongs to an earlier successful   *)
(* swap fails with ReplayDetected, whatever its parcel, and leaves the     *)
(* whole storage (registry, total_supply, replay guard) unchanged.         *)
C3_ReplayRejected ==
  ((Forward \/ Reverse) /\ last.txid \in settled) =>
    /\ ~last.ok
    /\ last.err = ReplayDetected
    /\ storage = pre

C3_Witness ==
  /\ Forward
  /\ last.txid \in settled
  /\ last.parcel = <<>>
  /\ last.err = ReplayDetected
  /\ instances_count(pre) >= 1

-----------------------------------------------------------------------------
(* C4 *)

C4_Case == Forward /\ last.parcel # <<>> /\ ~AllMembers(last.parcel)

C4_Effect ==
  /\ ~last.ok
  /\ last.err = InvalidAssetId
  /\ SameRegistry(storage, pre)
  /\ total_supply(storage) = total_supply(pre)

(* C4 as stated: a forward swap whose parcel holds a non-member identifier *)
(* at any position fails with InvalidAssetId and leaves count, every slot  *)
(* and total_supply as they were before the call.                          *)
C4_NonMemberAlwaysInvalidAssetId == C4_Case => C4_Effect

(* C4 amended: the same for a forward swap called under a txid that is not *)
(* yet marked.                                                             *)
C4_MidBatchFailureRollsBack == (C4_Case /\ Fresh) => C4_Effect

(* the handler had appended valid1 before it met the invalid identifier *)
C4_Witness ==
  /\ C4_Case /\ Fresh /\ last.err = InvalidAssetId
  /\ Len(last.parcel) = 3
  /\ is_valid_panda(last.parcel[1].id)
  /\ ~is_valid_panda(last.parcel[2].id)
  /\ is_valid_panda(last.parcel[3].id)
  /\ instances_count(last.cache) = instances_count(pre) + 1
  /\ SameRegistry(storage, pre)

-----------------------------------------------------------------------------
(* C5 *)

(* C5: a call of either swap that returns an error under a txid that was   *)
(* unmarked before the call leaves the txid unmarked.                      *)
C5_FailureLeavesNoMark ==
  ((Forward \/ Reverse) /\ ~last.ok /\ Fresh) => ~has_tx_hash(storage, last.txid)

(* a forward swap that failed on the ledger's overflow after add_tx_hash ran *)
C5_Witness ==
  /\ Forward /\ ~last.ok /\ Fresh
  /\ last.err = OverflowError
  /\ has_tx_hash(last.cache, last.txid)
  /\ ~has_tx_hash(storage, last.txid)

-----------------------------------------------------------------------------
(* C6 *)

CreditTransfersIn(alkanes) == {i \in 1..Len(alkanes) : alkanes[i].id = Myself}

(* C6: for a successful reverse swap of amount a, with units = a div rate, *)
(* consumed = units * rate and change = a - consumed: 0 <= change < rate,  *)
(* total_supply drops by exactly consumed, and the response holds one      *)
(* credit transfer of amount change, after the units collectible           *)
(* transfers, exactly when change > 0 (none when change = 0).              *)
C6_ChangeHandling ==
  (Reverse /\ last.ok) =>
    LET a == last.parcel[1].value
        units == a \div Rate
        consumed == units * Rate
        change == a - consumed
    IN  /\ 0 <= change /\ change < Rate
        /\ total_supply(storage) = total_supply(pre) - consumed
        /\ \A i \in 1..units : i <= Len(last.alkanes) /\ last.alkanes[i].id # Myself
        /\ IF change > 0
           THEN /\ Len(last.alkanes) = units + 1
                /\ last.alkanes[units + 1] = AlkaneTransfer(Myself, change)
                /\ CreditTransfersIn(last.alkanes) = {units + 1}
           ELSE /\ Len(last.alkanes) = units
                /\ CreditTransfersIn(last.alkanes) = {}

(* one and a half units: one collectible and half a rate of change *)
C6_Witness ==
  /\ Reverse /\ last.ok
  /\ Rate > 1
  /\ last.parcel[1].value = Rate + Rate \div 2
  /\ Len(last.alkanes) = 2
  /\ last.alkanes[1].value = 1 /\ last.alkanes[1].id # Myself
  /\ last.alkanes[2] = AlkaneTransfer(Myself, Rate \div 2)
  /\ total_supply(storage) = total_supply(pre) - Rate

-----------------------------------------------------------------------------
(* C7 *)

C7_Effect ==
  /\ last.ok
  /\ last.alkanes = <<AlkaneTransfer(rt.x, 1)>>
  /\ total_supply(storage) = total_supply(rt.st)
  /\ instances_count(storage) = instances_count(rt.st)
  /\ storage.slot = rt.st.slot

(* C7 as stated: a successful forward swap of one member identifier X,     *)
(* followed at once by a reverse swap of exactly rate under a different    *)
(* txid, returns exactly [X] with no change and restores total_supply,     *)
(* count and the slots to their values before the deposit.                 *)
C7_RoundTripDifferentTxid == (rt.phase = "redeemed") => C7_Effect

(* C7 amended: the same when the reverse swap's txid is not yet marked.    *)
C7_RoundTripUnmarkedTxid == (rt.phase = "redeemed" /\ Fresh) => C7_Effect

C7_Witness ==
  /\ rt.phase = "redeemed" /\ Fresh /\ last.ok
  /\ instances_count(rt.st) >= 1
  /\ rt.x # SlotId(rt.st, instances_count(rt.st))

-----------------------------------------------------------------------------
(* C8 *)

(* the first failing check, in the order the claim gives *)
C8_Expected(st, parcel) ==
  IF Len(parcel) # 1 THEN WrongInputShape
  ELSE IF parcel[1].id # Myself THEN WrongAssetSupplied
  ELSE IF parcel[1].value < Rate THEN InsufficientAmount
  ELSE IF parcel[1].value \div Rate > instances_count(st) THEN InsufficientInventory
  ELSE ""

(* C8: a reverse swap that passes the replay check fails with the first of *)
(* WrongInputShape (length # 1), WrongAssetSupplied (id not the engine's), *)
(* InsufficientAmount (amount < rate), InsufficientInventory (units >      *)
(* count) whose condition holds, and then leaves the storage unchanged; it *)
(* fails with none of the four when none of the conditions holds.          *)
C8_ReversePrecedence ==
  (Reverse /\ Fresh) =>
    IF C8_Expected(pre, last.parcel) # ""
    THEN ~last.ok /\ last.err = C8_Expected(pre, last.parcel) /\ storage = pre
    ELSE last.err \notin {WrongInputShape, WrongAssetSupplied, InsufficientAmount,
                          InsufficientInventory}

(* a transfer that is both not the credit token and below the rate *)
C8_Witness ==
  /\ Reverse /\ Fresh
  /\ Len(last.parcel) = 1
  /\ last.parcel[1].id # Myself /\ last.parcel[1].value < Rate
  /\ last.err = WrongAssetSupplied
  /\ instances_count(pre) >= 1
  /\ storage = pre

-----------------------------------------------------------------------------
(* C9 *)

WellFormed(bytes) == Len(bytes) = 32 /\ \A i \in 1..32 : bytes[i] \in 0..255

(* C9: in every reachable state count is the number of non-empty slots,    *)
(* every slot 1..count holds a well-formed identifier and every slot above *)
(* count is empty.                                                         *)
C9_RegistryShape ==
  /\ instances_count(storage) = Cardinality({j \in DOMAIN storage.slot : storage.slot[j] # <<>>})
  /\ \A j \in DOMAIN storage.slot :
       IF j <= instances_count(storage)
       THEN WellFormed(storage.slot[j]) /\ lookup_instance(storage, j - 1).ok
       ELSE storage.slot[j] = <<>>

(* a pop has happened and identifiers are still held *)
C9_Witness ==
  /\ Reverse /\ last.ok
  /\ instances_count(storage) >= 1
  /\ instances_count(pre) > instances_count(storage)
  /\ storage.slot[instances_count(pre)] = <<>>

-----------------------------------------------------------------------------
(* C10 *)

(* C10: a successful swap leaves its txid marked; a txid marked before a   *)
(* call is marked after it, whatever the call; marking a marked txid       *)
(* leaves the storage as it is.                                            *)
C10_MarkIsPermanent ==
  /\ ((Forward \/ Reverse) /\ last.ok) => has_tx_hash(storage, last.txid)
  /\ \A t \in TxIds : has_tx_hash(pre, t) => has_tx_hash(storage, t)
  /\ \A t \in settled : has_tx_hash(storage, t)
  /\ \A t \in TxIds : has_tx_hash(storage, t) => add_tx_hash(storage, t) = storage

C10_Witness ==
  /\ (Forward \/ Reverse) /\ last.ok
  /\ has_tx_hash(storage, last.txid)
  /\ settled # {}
  /\ \A t \in settled : t # last.txid /\ has_tx_hash(pre, t) /\ has_tx_hash(storage, t)

-----------------------------------------------------------------------------
(* C11 *)

Mint == last.op = "mint_tokens"

(* C11: every mint_tokens call fails with NotImplemented, writes nothing   *)
(* and leaves the storage as it was; and whenever a call leaves            *)
(* total_supply larger than it found it, the call is a successful forward  *)
(* swap.                                                                   *)
C11_MintAlwaysFails ==
  /\ Mint => (~last.ok /\ last.err = NotImplemented /\ last.cache = pre /\ storage = pre)
  /\ (total_supply(storage) > total_supply(pre)) => (Forward /\ last.ok)

C11_Witness ==
  /\ Mint /\ ~last.ok /\ last.err = NotImplemented
  /\ last.parcel # <<>>
  /\ instances_count(pre) >= 1
  /\ storage = pre

-----------------------------------------------------------------------------
(* C12 *)

Called(op) == last.op = op

(* C12: increase(v) with total_supply + v above the unsigned 128-bit       *)
(* maximum fails with the overflow error of checked_add, decrease(v) with  *)
(* v > total_supply fails with the error of checked_sub (both are reported *)
(* through overflow_error), pop() with count = 0 fails with the count      *)
(* underflow error; each leaves total_supply, count and every slot as they *)
(* were.                                                                   *)
C12_BoundariesFailWithoutMutating ==
  /\ (Called("increase_total_supply") /\ total_supply(pre) + last.arg > U128_MAX)
       => (~last.ok /\ last.err = OverflowError /\ storage = pre)
  /\ (Called("decrease_total_supply") /\ last.arg > total_supply(pre))
       => (~last.ok /\ last.err = OverflowError /\ storage = pre)
  /\ (Called("pop_instance") /\ instances_count(pre) = 0)
       => (~last.ok /\ last.err = CountUnderflow /\ storage = pre)

(* a decrease by more than the ledger holds *)
C12_Witness ==
  /\ Called("decrease_total_supply")
  /\ total_supply(pre) > 0
  /\ last.arg > total_supply(pre)
  /\ ~last.ok
  /\ total_supply(storage) = total_supply(pre)

C12_WitnessIncreaseAtMax ==
  /\ Called("increase_total_supply")
  /\ total_supply(pre) = U128_MAX /\ last.arg = 1
  /\ ~last.ok /\ total_supply(storage) = U128_MAX

C12_WitnessPopOnEmpty ==
  /\ Called("pop_instance")
  /\ instances_count(pre) = 0
  /\ ~last.ok /\ SameRegistry(storage, pre)

-----------------------------------------------------------------------------
(* C13 *)

(* C13: in every reachable state increase(v) succeeds and adds v for every *)
(* v with total_supply + v within the unsigned 128-bit range, whether or   *)
(* not the sum is above BAMBOO_CAP; and a forward swap of k members under  *)
(* an unmarked txid whose k * rate fits in that range succeeds and adds    *)
(* k * rate, whether or not the result is above BAMBOO_CAP.                *)
C13_CapNotEnforced ==
  /\ \A v \in 0..U128_MAX :
       (total_supply(storage) + v <= U128_MAX) =>
         /\ increase_total_supply(storage, v).ok
         /\ total_supply(increase_total_supply(storage, v).st) = total_supply(storage) + v
  /\ (C1_Case /\ total_supply(pre) + Len(last.parcel) * Rate <= U128_MAX) =>
       /\ last.ok
       /\ total_supply(storage) = total_supply(pre) + Len(last.parcel) * Rate

(* a forward swap that took total_supply from at most the cap to above it *)
C13_Witness ==
  /\ Forward /\ last.ok
  /\ total_supply(pre) <= BAMBOO_CAP
  /\ total_supply(storage) > BAMBOO_CAP
  /\ instances_count(storage) > PANDA_SUPPLY

-----------------------------------------------------------------------------
(* C14 *)

(* one 32-byte record per identifier, collection then serial, in order *)
RECURSIVE C14_Records(_)
C14_Records(ids) ==
  IF ids = <<>> THEN <<>>
  ELSE to_le_bytes(Head(ids).block) \o to_le_bytes(Head(ids).tx) \o C14_Records(Tail(ids))

C14_Reversed(s) == [i \in 1..Len(s) |-> s[Len(s) + 1 - i]]

C14_Unchanged == storage = pre /\ last.cache = pre

(* C14: GetPandaStack always succeeds and returns one 32-byte record per   *)
(* identifier in custody, oldest surviving deposit first, which is the     *)
(* reverse of the order in which a reverse swap of the whole registry      *)
(* returns them; GetPandaStackCount always succeeds and returns count;     *)
(* both forward the incoming parcel and leave total_supply, the registry   *)
(* and the replay guard as they were.                                      *)
C14_ListingViews ==
  /\ Called("get_panda_stack") =>
       /\ last.ok
       /\ last.data = C14_Records(custody)
       /\ Len(last.data) = 32 * instances_count(pre)
       /\ last.alkanes = last.parcel
       /\ C14_Unchanged
       /\ \A t \in TxIds :
            (~has_tx_hash(pre, t) /\ instances_count(pre) >= 1) =>
              LET all == bamboo_to_panda(pre, t, <<Credit(instances_count(pre) * Rate)>>)
              IN  all.ok /\ Ids(all.alkanes) = C14_Reversed(custody)
  /\ Called("get_panda_stack_count") =>
       /\ last.ok
       /\ last.data = to_le_bytes(Len(custody))
       /\ from_le_bytes(last.data) = instances_count(pre)
       /\ last.alkanes = last.parcel
       /\ C14_Unchanged

(* a listing of two different identifiers, taken after an earlier reverse  *)
(* swap, with an unmarked txid left for redeeming them                     *)
C14_Witness ==
  /\ Called("get_panda_stack")
  /\ Len(custody) >= 2 /\ custody[1] # custody[2]
  /\ Len(last.data) = 64
  /\ GetSlot(pre, 3) = <<>> /\ settled # {}
  /\ \E t \in TxIds : ~has_tx_hash(pre, t)

C14_WitnessCount == Called("get_panda_stack_count") /\ from_le_bytes(last.data) = MaxPandas

-----------------------------------------------------------------------------
(* C15 *)

(* the identifiers in custody once the last call is accounted for: the     *)
(* identifier at position j is the one the add that filled slot j wrote    *)
C15_Written == CustodyNext

C15_Indexes == 0..(SlotCap - 1)

(* lookup(index) succeeds for every index < count, reads slot index + 1    *)
(* and returns the identifier written there, without changing the state    *)
C15_ReadsWrittenSlot ==
  \A index \in C15_Indexes :
    index < instances_count(storage) =>
      /\ lookup_instance(storage, index).ok
      /\ lookup_instance(storage, index).val = C15_Written[index + 1]
      /\ lookup_instance(storage, index).st = storage

(* the claim as made: lookup fails with CorruptState only on a slot that   *)
(* holds bytes which are not the 32-byte encoding                          *)
C15_FailsOnlyOnPresentSlot ==
  /\ C15_ReadsWrittenSlot
  /\ \A index \in C15_Indexes :
       ~lookup_instance(storage, index).ok =>
         /\ GetSlot(storage, index + 1) # <<>>
         /\ ~WellFormed(GetSlot(storage, index + 1))

(* C15: lookup(index) reads slot index + 1; for every index < count it     *)
(* succeeds and returns the identifier written by the add that filled that *)
(* slot; it fails, with CorruptState and without changing the state,       *)
(* exactly when the bytes stored at slot index + 1 are not 32 bytes long,  *)
(* and in every reachable state those are the slots above count, which     *)
(* were never written or were cleared by a pop.                            *)
C15_LookupFailsOffTheRegistry ==
  /\ C15_ReadsWrittenSlot
  /\ \A index \in C15_Indexes :
       LET found == lookup_instance(storage, index)
       IN  /\ ~found.ok <=> Len(GetSlot(storage, index + 1)) # 32
           /\ ~found.ok <=> index >= instances_count(storage)
           /\ ~found.ok => /\ found.err = CorruptState
                           /\ found.st = storage
                           /\ GetSlot(storage, index + 1) = <<>>

(* after a reverse swap that left identifiers in custody, the slot the pop *)
(* cleared fails to look up and the slot below it succeeds                 *)
C15_Witness ==
  /\ Reverse /\ last.ok
  /\ instances_count(storage) >= 1
  /\ instances_count(storage) < instances_count(pre)
  /\ ~lookup_instance(storage, instances_count(storage)).ok
  /\ lookup_instance(storage, instances_count(storage) - 1).ok
  /\ lookup_instance(storage, instances_count(storage) - 1).val
       = C15_Written[instances_count(storage)]

-----------------------------------------------------------------------------
(* C16 *)

(* C16: in every reachable state, and in the state every handler leaves    *)
(* when it returns successfully, total_supply = count * rate.              *)
C16_FullBacking ==
  /\ total_supply(storage) = instances_count(storage) * Rate
  /\ total_supply(pre) = instances_count(pre) * Rate
  /\ last.ok => total_supply(last.cache) = instances_count(last.cache) * Rate

(* a reverse swap that paid change and left identifiers in custody *)
C16_Witness ==
  /\ Reverse /\ last.ok
  /\ bamboo_change(last.parcel[1].value) > 0
  /\ instances_count(storage) >= 1
  /\ instances_count(storage) < instances_count(pre)

(* a failed forward swap whose discarded writes had broken the equality *)
C16_WitnessFailed ==
  /\ Forward /\ ~last.ok
  /\ total_supply(last.cache) # instances_count(last.cache) * Rate

C16_WitnessMint == Mint /\ ~last.ok /\ instances_count(storage) >= 1

-----------------------------------------------------------------------------
(* C17 *)

(* the checks of a reverse swap pass: unmarked txid, one transfer, own     *)
(* credit id, amount >= rate, count >= units                               *)
C17_ChecksPass ==
  /\ Reverse /\ Fresh
  /\ Len(last.parcel) = 1
  /\ last.parcel[1].id = Myself
  /\ last.parcel[1].value >= Rate
  /\ instances_count(pre) >= last.parcel[1].value \div Rate

(* C17: a reverse swap that passes its checks succeeds: the decrease of    *)
(* the consumed amount does not underflow and every one of its pops finds  *)
(* an identifier; a reverse swap that fails has written nothing, so none   *)
(* fails after marking its txid.                                           *)
C17_NoFailureAfterMark ==
  /\ C17_ChecksPass =>
       /\ last.ok
       /\ decrease_total_supply(add_tx_hash(pre, last.txid),
                                (last.parcel[1].value \div Rate) * Rate).ok
       /\ PopLoop(pre, last.parcel[1].value \div Rate, <<>>).ok
  /\ (Reverse /\ ~last.ok) =>
       /\ ~C17_ChecksPass
       /\ last.cache = pre
       /\ Fresh => ~has_tx_hash(last.cache, last.txid)

(* a reverse swap that passed the checks and emptied the registry in       *)
(* several pops                                                            *)
C17_Witness ==
  /\ C17_ChecksPass /\ last.ok
  /\ last.parcel[1].value \div Rate >= 2
  /\ instances_count(pre) = last.parcel[1].value \div Rate
  /\ has_tx_hash(storage, last.txid)

C17_WitnessFailed == Reverse /\ ~last.ok /\ Fresh /\ last.err = InsufficientInventory

-----------------------------------------------------------------------------
(* C18 *)

C18_IsMember(id) == id.block = PANDA_BLOCK /\ id.tx \in PANDA_IDS

C18_Deposited(id) == \E k \in 1..Len(custody) : custody[k] = id

(* C18: in every reachable state every identifier held in slots 1..count   *)
(* is a member of the collection, and every collectible transfer a reverse *)
(* swap emits carries a member that an earlier successful forward swap     *)
(* deposited and that no reverse swap has returned since.                  *)
C18_CustodyMembership ==
  /\ \A j \in 1..instances_count(storage) : C18_IsMember(SlotId(storage, j))
  /\ \A j \in 1..instances_count(pre) : C18_IsMember(SlotId(pre, j))
  /\ (Reverse /\ last.ok) =>
       \A i \in 1..Len(last.alkanes) :
         last.alkanes[i].id # Myself =>
           /\ C18_IsMember(last.alkanes[i].id)
           /\ C18_Deposited(last.alkanes[i].id)

(* a reverse swap returned two collectibles while a third stayed held *)
C18_Witness ==
  /\ Reverse /\ last.ok
  /\ Returned(last.alkanes) >= 2
  /\ instances_count(storage) >= 1
  /\ C18_IsMember(last.alkanes[1].id)

-----------------------------------------------------------------------------
(* C19 *)

C19_AlreadyHeld(id) == \E j \in 1..instances_count(pre) : SlotId(pre, j) = id

(* C19: a forward swap of members under an unmarked txid whose credit fits *)
(* succeeds whatever the amounts of its transfers and whether or not an    *)
(* identifier is already held or repeated in the parcel; a successful      *)
(* forward swap adds one slot per transfer, in parcel order, and rate per  *)
(* transfer to total_supply, and pays rate per transfer.                   *)
C19_CreditsPerTransfer ==
  /\ (C1_Case /\ total_supply(pre) + Len(last.parcel) * Rate <= U128_MAX) => last.ok
  /\ (Forward /\ last.ok) =>
       /\ instances_count(storage) = instances_count(pre) + Len(last.parcel)
       /\ Held(storage) = Held(pre) \o Ids(last.parcel)
       /\ total_supply(storage) = total_supply(pre) + Len(last.parcel) * Rate
       /\ last.alkanes = <<AlkaneTransfer(Myself, Len(last.parcel) * Rate)>>

(* a successful forward swap of the same identifier twice, with amounts 0  *)
(* and 2, while that identifier is already held                            *)
C19_Witness ==
  /\ Forward /\ last.ok
  /\ Len(last.parcel) = 2
  /\ last.parcel[1].id = last.parcel[2].id
  /\ last.parcel[1].value = 0 /\ last.parcel[2].value = 2
  /\ C19_AlreadyHeld(last.parcel[1].id)

====
